---------------------------- MODULE Spec2Model ----------------------------
(***************************************************************************)
(* A model of the MNDP packet codec and neighbor mapper of mndp-rust:      *)
(* src/src/protocol.rs (Packet::from_bytes, to_bytes, to_neighbor,         *)
(* from_neighbor, TryFrom<u16> for MndpType) and src/src/neighbor.rs       *)
(* (Neighbor, Builder, Unpack).                                            *)
(*                                                                         *)
(* Representation of the Rust values:                                      *)
(*   u8          a number in 0..255                                        *)
(*   u16         a number in 0..65535                                      *)
(*   u32, u64    big-endian sequences of 2 and 4 sixteen-bit limbs         *)
(*   Bytes       a sequence of u8                                          *)
(*   String      the sequence of its UTF-8 bytes                           *)
(*   Option<T>   << >> for None, << v >> for Some(v)                       *)
(*   Result      [ok |-> TRUE, value |-> v]  or  [ok |-> FALSE]            *)
(*   a call      [panicked |-> FALSE, value |-> v] or [panicked |-> TRUE]  *)
(***************************************************************************)
EXTENDS Integers, Sequences, FiniteSets, TLC

VARIABLES pc, bytes, packet, neighbor, bytes_out, packet_out, neighbor_out

vars == <<pc, bytes, packet, neighbor, bytes_out, packet_out, neighbor_out>>

---------------------------------------------------------------------------
(* Bounds of the model.                                                    *)

\* Longest input buffer given to from_bytes.
MaxBufLen == 12
\* Longest field list given to to_neighbor.
MaxFields == 3
\* The long strings are U16_MAX - MaxExtra .. U16_MAX + MaxExtra bytes long.
MaxExtra == 1

\* The byte values input buffers are made of.
ByteVals == {0, 1}

---------------------------------------------------------------------------
(* Rust's Option, Result and panics.                                       *)

None == << >>
Some(v) == << v >>
is_some(o) == Len(o) = 1
unwrap_some(o) == o[1]

Ok(v) == [ok |-> TRUE, value |-> v]
Err == [ok |-> FALSE]

Returned(v) == [panicked |-> FALSE, value |-> v]
Panicked == [panicked |-> TRUE]

---------------------------------------------------------------------------
(* protocol.rs: the MNDP type values.                                      *)

MNDP_MAC_ADDRESS == 1
MNDP_IDENTITY == 5
MNDP_VERSION == 7
MNDP_PLATFORM == 8
MNDP_UPTIME == 10
MNDP_SOFTWARE_ID == 11
MNDP_BOARD == 12
MNDP_UNPACK == 14
MNDP_IPV6_ADDRESS == 15
MNDP_INTERFACE_NAME == 16
MNDP_IPV4_ADDRESS == 17

\* The largest u16: the clamp of to_bytes.
U16_MAX == 65535

\* TryFrom<u16> for MndpType: Ok(variant) for the eleven codes, Err otherwise.
try_from(n) ==
  CASE n = MNDP_MAC_ADDRESS    -> Ok("MacAddress")
    [] n = MNDP_IDENTITY       -> Ok("Identity")
    [] n = MNDP_VERSION        -> Ok("Version")
    [] n = MNDP_PLATFORM       -> Ok("Platform")
    [] n = MNDP_UPTIME         -> Ok("Uptime")
    [] n = MNDP_SOFTWARE_ID    -> Ok("SoftwareId")
    [] n = MNDP_BOARD          -> Ok("Board")
    [] n = MNDP_UNPACK         -> Ok("Unpack")
    [] n = MNDP_IPV6_ADDRESS   -> Ok("Ipv6Address")
    [] n = MNDP_INTERFACE_NAME -> Ok("InterfaceName")
    [] n = MNDP_IPV4_ADDRESS   -> Ok("Ipv4Address")
    [] OTHER                   -> Err

\* MndpType::X as u16.
as_u16(typ) ==
  CASE typ = "MacAddress"    -> MNDP_MAC_ADDRESS
    [] typ = "Identity"      -> MNDP_IDENTITY
    [] typ = "Version"       -> MNDP_VERSION
    [] typ = "Platform"      -> MNDP_PLATFORM
    [] typ = "Uptime"        -> MNDP_UPTIME
    [] typ = "SoftwareId"    -> MNDP_SOFTWARE_ID
    [] typ = "Board"         -> MNDP_BOARD
    [] typ = "Unpack"        -> MNDP_UNPACK
    [] typ = "Ipv6Address"   -> MNDP_IPV6_ADDRESS
    [] typ = "InterfaceName" -> MNDP_INTERFACE_NAME
    [] typ = "Ipv4Address"   -> MNDP_IPV4_ADDRESS

---------------------------------------------------------------------------
(* protocol.rs: TypeValue and Packet.                                      *)

TypeValue(typ, value) == [typ |-> typ, value |-> value]

\* Packet::new(): header 0, sequence 0, no fields.
PacketNew == [header |-> 0, sequence |-> 0, fields |-> << >>]

---------------------------------------------------------------------------
(* The bytes crate: big-endian u16 reads and writes, split_to, slice.      *)

\* Buf::get_u16 reads two bytes, most significant first.
get_u16(buf) == 256 * buf[1] + buf[2]

\* Buf::advance(n): what is left of buf after n bytes are read.
advance(buf, n) == SubSeq(buf, n + 1, Len(buf))

\* BufMut::put_u16 writes two bytes, most significant first.
put_u16_le(n) == << n % 256, n \div 256 >>
put_u16(n) == << n \div 256, n % 256 >>

\* Bytes::slice(0..len) and the head of Bytes::split_to(len).
slice_to(value, len) == SubSeq(value, 1, len)

---------------------------------------------------------------------------
(* Packet::from_bytes.                                                     *)

\* The minimum length of from_bytes: a buffer this short is an Err.
from_bytes_too_short_off_by_one(buf) == Len(buf) <= 4
from_bytes_too_short(buf) == Len(buf) < 4

\* The while loop "Eat the TLVs": a record whose length exceeds what remains
\* adds no field, and the loop goes on with the bytes after its 4-byte header.
RECURSIVE eat_tlvs(_, _)
eat_tlvs(buf, fields) ==
  IF Len(buf) >= 4
  THEN LET typ == get_u16(buf)
           len == get_u16(advance(buf, 2))
           rest == advance(buf, 4)
       IN  IF Len(rest) >= len
           THEN eat_tlvs(advance(rest, len),
                         Append(fields, TypeValue(typ, slice_to(rest, len))))
           ELSE eat_tlvs(rest, fields)
  ELSE fields

from_bytes(buf) ==
  IF from_bytes_too_short(buf)
  THEN Err
  ELSE Ok([header   |-> get_u16(buf),
           sequence |-> get_u16(advance(buf, 2)),
           fields   |-> eat_tlvs(advance(buf, 4), << >>)])

---------------------------------------------------------------------------
(* Packet::to_bytes.                                                       *)

\* The length to_bytes writes for a value of n bytes.
clamp_len_unclamped(n) == n
clamp_len(n) == IF n >= U16_MAX THEN U16_MAX ELSE n

\* len.try_into().unwrap(): usize -> u16 panics when the number does not fit.
\* tv.value.slice(0..len) panics when len is past the end of the value.
put_field(buf, tv) ==
  LET len == clamp_len(Len(tv.value))
  IN  IF len > U16_MAX \/ len > Len(tv.value)
      THEN Panicked
      ELSE Returned(buf \o put_u16(tv.typ) \o put_u16(len) \o slice_to(tv.value, len))

RECURSIVE put_fields(_, _, _)
put_fields(buf, fields, i) ==
  IF i > Len(fields)
  THEN Returned(buf)
  ELSE LET r == put_field(buf, fields[i])
       IN  IF r.panicked THEN Panicked ELSE put_fields(r.value, fields, i + 1)

to_bytes(p) ==
  put_fields(put_u16(p.header) \o put_u16(p.sequence), p.fields, 1)

---------------------------------------------------------------------------
(* neighbor.rs: Unpack, Neighbor and its Builder.                          *)

\* Neighbor::new() and Builder::new(): every attribute None.
NeighborNew ==
  [board |-> None, identity |-> None, interface_name |-> None,
   ipv4_address |-> None, ipv6_address |-> None, mac_address |-> None,
   platform |-> None, software_id |-> None, unpack |-> None,
   uptime |-> None, version |-> None]

\* The Builder's setters: each overwrites one attribute with Some(value).
set_board(nb, value)          == [nb EXCEPT !.board = Some(value)]
set_identity(nb, value)       == [nb EXCEPT !.identity = Some(value)]
set_interface_name(nb, value) == [nb EXCEPT !.interface_name = Some(value)]
set_ipv4_address(nb, value)   == [nb EXCEPT !.ipv4_address = Some(value)]
set_ipv6_address(nb, value)   == [nb EXCEPT !.ipv6_address = Some(value)]
set_mac_address(nb, value)    == [nb EXCEPT !.mac_address = Some(value)]
set_platform(nb, value)       == [nb EXCEPT !.platform = Some(value)]
set_software_id(nb, value)    == [nb EXCEPT !.software_id = Some(value)]
set_unpack(nb, value)         == [nb EXCEPT !.unpack = Some(value)]
set_uptime(nb, value)         == [nb EXCEPT !.uptime = Some(value)]
set_version(nb, value)        == [nb EXCEPT !.version = Some(value)]

---------------------------------------------------------------------------
(* std: String::from_utf8_lossy, slice to array, integers, Duration.       *)

\* U+FFFD REPLACEMENT CHARACTER in UTF-8.
REPLACEMENT == << 239, 191, 189 >>

utf8_char_width(b) ==
  IF b < 128 THEN 1
  ELSE IF b \in 194..223 THEN 2
  ELSE IF b \in 224..239 THEN 3
  ELSE IF b \in 240..244 THEN 4
  ELSE 0

safe_get(s, i) == IF i <= Len(s) THEN s[i] ELSE 0

is_cont(b) == b \in 128..191

\* The second byte a three- or four-byte sequence may have after lead byte b.
second_ok(b, c) ==
  \/ b = 224 /\ c \in 160..191
  \/ b \in 225..236 /\ c \in 128..191
  \/ b = 237 /\ c \in 128..159
  \/ b \in 238..239 /\ c \in 128..191
  \/ b = 240 /\ c \in 144..191
  \/ b \in 241..243 /\ c \in 128..191
  \/ b = 244 /\ c \in 128..143

\* One step of Utf8Chunks at position i: the bytes taken, and whether they
\* are a character or a maximal invalid part.
next_chunk(s, i) ==
  LET b == s[i]
      w == utf8_char_width(b)
  IN  IF w = 1 THEN [valid |-> TRUE, len |-> 1]
      ELSE IF w = 2 THEN
        IF is_cont(safe_get(s, i + 1)) THEN [valid |-> TRUE, len |-> 2]
        ELSE [valid |-> FALSE, len |-> 1]
      ELSE IF w = 3 THEN
        IF ~second_ok(b, safe_get(s, i + 1)) THEN [valid |-> FALSE, len |-> 1]
        ELSE IF ~is_cont(safe_get(s, i + 2)) THEN [valid |-> FALSE, len |-> 2]
        ELSE [valid |-> TRUE, len |-> 3]
      ELSE IF w = 4 THEN
        IF ~second_ok(b, safe_get(s, i + 1)) THEN [valid |-> FALSE, len |-> 1]
        ELSE IF ~is_cont(safe_get(s, i + 2)) THEN [valid |-> FALSE, len |-> 2]
        ELSE IF ~is_cont(safe_get(s, i + 3)) THEN [valid |-> FALSE, len |-> 3]
        ELSE [valid |-> TRUE, len |-> 4]
      ELSE [valid |-> FALSE, len |-> 1]

RECURSIVE lossy_from(_, _)
lossy_from(s, i) ==
  IF i > Len(s) THEN << >>
  ELSE LET c == next_chunk(s, i)
       IN  (IF c.valid THEN SubSeq(s, i, i + c.len - 1) ELSE REPLACEMENT)
             \o lossy_from(s, i + c.len)

\* String::from_utf8_lossy(&value).to_string(): invalid parts become U+FFFD.
from_utf8_lossy(value) == lossy_from(value, 1)

\* <[u8; n]>::try_from(&[u8]): Ok only for a slice of exactly n bytes.
try_into_array(value, n) == IF Len(value) = n THEN Ok(value) ELSE Err

\* Buf::get_u32_le on a slice: the u32 of the first four bytes, least
\* significant first; panics when fewer than four bytes remain.
get_u32_be(value) ==
  IF Len(value) < 4 THEN Panicked
  ELSE Returned(<< value[2] + 256 * value[1], value[4] + 256 * value[3] >>)
get_u32_le(value) ==
  IF Len(value) < 4 THEN Panicked
  ELSE Returned(<< value[3] + 256 * value[4], value[1] + 256 * value[2] >>)

\* u32 -> u64 (into).
u64_from_u32(n) == << 0, 0, n[1], n[2] >>

\* TryInto::<u32>::try_into(u64): Ok only when the upper half is zero.
try_into_u32(n) == IF n[1] = 0 /\ n[2] = 0 THEN Ok(<< n[3], n[4] >>) ELSE Err

\* u32::to_le_bytes.
to_le_bytes(n) == << n[2] % 256, n[2] \div 256, n[1] % 256, n[1] \div 256 >>

\* Duration::from_secs and Duration::as_secs.
from_secs(secs) == [secs |-> secs, nanos |-> 0]
as_secs(d) == d.secs

---------------------------------------------------------------------------
(* Packet::to_neighbor.                                                    *)

\* value.as_ref().try_into().unwrap(): the array, or a panic on an Err.
unwrap_array(value, n) ==
  LET r == try_into_array(value, n)
  IN  IF r.ok THEN Returned(r.value) ELSE Panicked

\* The three address arms.
match_ipv4(nb, value) ==
  LET a == unwrap_array(value, 4)
  IN  IF a.panicked THEN Panicked ELSE Returned(set_ipv4_address(nb, a.value))

match_ipv6(nb, value) ==
  LET a == unwrap_array(value, 16)
  IN  IF a.panicked THEN Panicked ELSE Returned(set_ipv6_address(nb, a.value))

match_mac(nb, value) ==
  LET a == unwrap_array(value, 6)
  IN  IF a.panicked THEN Panicked ELSE Returned(set_mac_address(nb, a.value))

\* The Unpack arm: match tv.value[0]; indexing an empty value panics.
match_unpack(nb, value) ==
  IF Len(value) = 0 THEN Panicked
  ELSE IF value[1] = 0 THEN Returned(set_unpack(nb, "No"))
  ELSE IF value[1] = 1 THEN Returned(set_unpack(nb, "Simple"))
  ELSE Returned(nb)

\* The Uptime arm: Duration::from_secs(value.as_ref().get_u32_le().into()).
match_uptime(nb, value) ==
  LET r == get_u32_le(value)
  IN  IF r.panicked THEN Panicked
      ELSE Returned(set_uptime(nb, from_secs(u64_from_u32(r.value))))

\* The body of the for loop: the match on the field's type.
match_typ(nb, tv) ==
  LET t == try_from(tv.typ)
  IN  IF ~t.ok THEN Returned(nb)
      ELSE CASE t.value = "Board" -> Returned(set_board(nb, from_utf8_lossy(tv.value)))
             [] t.value = "Identity" -> Returned(set_identity(nb, from_utf8_lossy(tv.value)))
             [] t.value = "InterfaceName" -> Returned(set_interface_name(nb, from_utf8_lossy(tv.value)))
             [] t.value = "Ipv4Address" -> match_ipv4(nb, tv.value)
             [] t.value = "Ipv6Address" -> match_ipv6(nb, tv.value)
             [] t.value = "MacAddress" -> match_mac(nb, tv.value)
             [] t.value = "Platform" -> Returned(set_platform(nb, from_utf8_lossy(tv.value)))
             [] t.value = "SoftwareId" -> Returned(set_software_id(nb, from_utf8_lossy(tv.value)))
             [] t.value = "Unpack" -> match_unpack(nb, tv.value)
             [] t.value = "Uptime" -> match_uptime(nb, tv.value)
             [] t.value = "Version" -> Returned(set_version(nb, from_utf8_lossy(tv.value)))

RECURSIVE for_fields(_, _, _)
for_fields(nb, fields, i) ==
  IF i > Len(fields)
  THEN Returned(nb)
  ELSE LET r == match_typ(nb, fields[i])
       IN  IF r.panicked THEN Panicked ELSE for_fields(r.value, fields, i + 1)

Reverse(s) == [i \in 1..Len(s) |-> s[Len(s) + 1 - i]]

to_neighbor_first_wins(p) == for_fields(NeighborNew, Reverse(p.fields), 1)
to_neighbor(p) == for_fields(NeighborNew, p.fields, 1)

---------------------------------------------------------------------------
(* Packet::from_neighbor.                                                  *)

\* if let Some(val) = &neighbor.x { packet.fields.push(TypeValue {..}) }
push_if_some(o, typ) ==
  IF is_some(o) THEN << TypeValue(as_u16(typ), unwrap_some(o)) >> ELSE << >>

push_unpack(o) ==
  IF is_some(o)
  THEN << TypeValue(as_u16("Unpack"), << IF unwrap_some(o) = "No" THEN 0 ELSE 1 >>) >>
  ELSE << >>

\* The uptime is left out when its seconds do not fit a u32.
push_uptime(o) ==
  IF is_some(o)
  THEN LET secs == try_into_u32(as_secs(unwrap_some(o)))
       IN  IF secs.ok
           THEN << TypeValue(as_u16("Uptime"), to_le_bytes(secs.value)) >>
           ELSE << >>
  ELSE << >>

from_neighbor_fields_version_first(n) ==
     push_if_some(n.version, "Version")
  \o push_if_some(n.board, "Board")
  \o push_if_some(n.identity, "Identity")
  \o push_if_some(n.interface_name, "InterfaceName")
  \o push_if_some(n.ipv4_address, "Ipv4Address")
  \o push_if_some(n.ipv6_address, "Ipv6Address")
  \o push_if_some(n.mac_address, "MacAddress")
  \o push_if_some(n.platform, "Platform")
  \o push_if_some(n.software_id, "SoftwareId")
  \o push_unpack(n.unpack)
  \o push_uptime(n.uptime)
from_neighbor_fields(n) ==
     push_if_some(n.board, "Board")
  \o push_if_some(n.identity, "Identity")
  \o push_if_some(n.interface_name, "InterfaceName")
  \o push_if_some(n.ipv4_address, "Ipv4Address")
  \o push_if_some(n.ipv6_address, "Ipv6Address")
  \o push_if_some(n.mac_address, "MacAddress")
  \o push_if_some(n.platform, "Platform")
  \o push_if_some(n.software_id, "SoftwareId")
  \o push_unpack(n.unpack)
  \o push_uptime(n.uptime)
  \o push_if_some(n.version, "Version")

from_neighbor(n) == [PacketNew EXCEPT !.fields = from_neighbor_fields(n)]

---------------------------------------------------------------------------
(* How SpecWire holds byte strings.  Its values are up to 65537 bytes      *)
(* long, so its variables hold every Bytes and String run-length encoded:  *)
(* a sequence of << byte, count >> runs.  The operations work on the plain *)
(* byte sequences: an action loads its argument, applies the operation and *)
(* stores the result.                                                      *)

RECURSIVE Ascending(_)
Ascending(S) ==
  IF S = {} THEN << >>
  ELSE LET m == CHOOSE x \in S : \A y \in S : x <= y
       IN  << m >> \o Ascending(S \ {m})

Store(s) ==
  LET starts == Ascending({ i \in 1..Len(s) : i = 1 \/ s[i] # s[i - 1] })
  IN  [k \in 1..Len(starts) |->
         << s[starts[k]],
            (IF k < Len(starts) THEN starts[k + 1] ELSE Len(s) + 1) - starts[k] >>]

RECURSIVE Load(_)
Load(runs) ==
  IF runs = << >> THEN << >>
  ELSE [i \in 1..runs[1][2] |-> runs[1][1]] \o Load(Tail(runs))

StoreOption(o) == IF o = << >> THEN << >> ELSE << Store(o[1]) >>
LoadOption(o) == IF o = << >> THEN << >> ELSE << Load(o[1]) >>

\* A Neighbor with its String attributes stored, and loaded.
StoreNeighbor(n) ==
  [n EXCEPT !.board = StoreOption(@), !.identity = StoreOption(@),
            !.interface_name = StoreOption(@), !.platform = StoreOption(@),
            !.software_id = StoreOption(@), !.version = StoreOption(@)]
LoadNeighbor(n) ==
  [n EXCEPT !.board = LoadOption(@), !.identity = LoadOption(@),
            !.interface_name = LoadOption(@), !.platform = LoadOption(@),
            !.software_id = LoadOption(@), !.version = LoadOption(@)]

\* A Packet with its field values stored, and loaded.
StorePacket(p) ==
  [p EXCEPT !.fields = [i \in 1..Len(@) |-> [typ |-> @[i].typ, value |-> Store(@[i].value)]]]
LoadPacket(p) ==
  [p EXCEPT !.fields = [i \in 1..Len(@) |-> [typ |-> @[i].typ, value |-> Load(@[i].value)]]]

\* The result of to_bytes with its bytes stored.
StoreResult(r) == IF r.panicked THEN r ELSE [r EXCEPT !.value = Store(@)]

---------------------------------------------------------------------------
(* Inputs.                                                                 *)

RECURSIVE SeqsUpTo(_, _)
SeqsUpTo(S, n) ==
  IF n = 0 THEN { << >> }
  ELSE LET shorter == SeqsUpTo(S, n - 1)
       IN  shorter \cup { Append(s, x) : s \in { t \in shorter : Len(t) = n - 1 }, x \in S }

\* The value of a variable a specification does not use.
Unused == << >>

\* Strings: "A", "B", "e-acute" (two bytes), and the replacement character.
StrA == << 65 >>
StrB == << 66 >>
StrEAcute == << 195, 169 >>

\* Addresses: 172.18.157.1, 10.0.0.2, 2600:6c50:67f:7700::1, c4:ad:34:bf:91:11.
Ipv4A == << 172, 18, 157, 1 >>
Ipv4B == << 10, 0, 0, 2 >>
Ipv6A == << 38, 0, 108, 80, 6, 127, 119, 0, 0, 0, 0, 0, 0, 0, 0, 1 >>
MacA == << 196, 173, 52, 191, 145, 17 >>

\* Field values as they may come off the wire, well-sized and not.
MapperFields ==
  { TypeValue(MNDP_BOARD, StrA),
    TypeValue(MNDP_BOARD, << 65, 255, 195 >>),
    TypeValue(MNDP_IDENTITY, StrEAcute),
    TypeValue(MNDP_INTERFACE_NAME, << 226, 130 >>),
    TypeValue(MNDP_PLATFORM, << >>),
    TypeValue(MNDP_SOFTWARE_ID, StrB),
    TypeValue(MNDP_VERSION, StrA),
    TypeValue(MNDP_IPV4_ADDRESS, Ipv4A),
    TypeValue(MNDP_IPV4_ADDRESS, Ipv4B),
    TypeValue(MNDP_IPV4_ADDRESS, << 10, 0, 0 >>),
    TypeValue(MNDP_IPV6_ADDRESS, Ipv6A),
    TypeValue(MNDP_IPV6_ADDRESS, Ipv4A),
    TypeValue(MNDP_MAC_ADDRESS, MacA),
    TypeValue(MNDP_MAC_ADDRESS, << >>),
    TypeValue(MNDP_UNPACK, << 0 >>),
    TypeValue(MNDP_UNPACK, << 1 >>),
    TypeValue(MNDP_UNPACK, << 2 >>),
    TypeValue(MNDP_UNPACK, << >>),
    TypeValue(MNDP_UPTIME, << 117, 10, 0, 128 >>),
    TypeValue(MNDP_UPTIME, << 1, 2, 3 >>),
    TypeValue(2, << 9 >>) }

\* Durations: 0 s, 2677 s, 2^32 - 1 s, 2^32 s, and 1.5 s.
Durations ==
  { [secs |-> << 0, 0, 0, 0 >>, nanos |-> 0],
    [secs |-> << 0, 0, 0, 2677 >>, nanos |-> 0],
    [secs |-> << 0, 0, 65535, 65535 >>, nanos |-> 0],
    [secs |-> << 0, 1, 0, 0 >>, nanos |-> 0],
    [secs |-> << 0, 0, 0, 1 >>, nanos |-> 500000000] }

OptionOf(S) == { None } \cup { Some(v) : v \in S }

\* Neighbor records a caller may build with the Builder.
Neighbors ==
  [board : OptionOf({ << >>, StrEAcute }),
   identity : OptionOf({ StrB }),
   interface_name : OptionOf({ StrA }),
   ipv4_address : OptionOf({ Ipv4A }),
   ipv6_address : OptionOf({ Ipv6A }),
   mac_address : OptionOf({ MacA }),
   platform : OptionOf({ REPLACEMENT }),
   software_id : OptionOf({ StrB }),
   unpack : OptionOf({ "No", "Simple" }),
   uptime : OptionOf(Durations),
   version : OptionOf({ StrA })]

\* A string of n letters.
LongString(n) == [i \in 1..n |-> 65] \o << >>

\* Neighbor records whose board or version is about as long as a u16 counts.
LongLengths == (U16_MAX - MaxExtra)..(U16_MAX + MaxExtra)

WireNeighbors ==
  { [NeighborNew EXCEPT !.board = b, !.identity = i, !.unpack = u,
                        !.uptime = t, !.version = v] :
      b \in OptionOf({ StrA } \cup { LongString(n) : n \in LongLengths }),
      i \in OptionOf({ << >> }),
      u \in OptionOf({ "Simple" }),
      t \in OptionOf({ [secs |-> << 0, 0, 1, 2 >>, nanos |-> 0] }),
      v \in OptionOf({ StrB, LongString(U16_MAX + MaxExtra) }) }

---------------------------------------------------------------------------
(* Spec, the codec: a buffer is decoded, the packet is encoded, and the    *)
(* encoding is decoded again.                                              *)

Init ==
  /\ pc = "start"
  /\ bytes \in SeqsUpTo(ByteVals, MaxBufLen)
  /\ packet = Unused
  /\ neighbor = Unused
  /\ bytes_out = Unused
  /\ packet_out = Unused
  /\ neighbor_out = Unused

FromBytes ==
  /\ pc = "start"
  /\ packet' = from_bytes(bytes)
  /\ pc' = "decoded"
  /\ UNCHANGED <<bytes, neighbor, bytes_out, packet_out, neighbor_out>>

ToBytes ==
  /\ pc = "decoded"
  /\ packet.ok
  /\ bytes_out' = to_bytes(packet.value)
  /\ pc' = "encoded"
  /\ UNCHANGED <<bytes, packet, neighbor, packet_out, neighbor_out>>

FromBytesAgain ==
  /\ pc = "encoded"
  /\ ~bytes_out.panicked
  /\ packet_out' = from_bytes(bytes_out.value)
  /\ pc' = "redecoded"
  /\ UNCHANGED <<bytes, packet, neighbor, bytes_out, neighbor_out>>

Next == FromBytes \/ ToBytes \/ FromBytesAgain

Spec == Init /\ [][Next]_vars

---------------------------------------------------------------------------
(* SpecMapper: a decoded packet is mapped to a Neighbor.  Every field list *)
(* whose values are at most 65535 bytes long is the result of from_bytes   *)
(* on its encoding.                                                        *)

InitMapper ==
  /\ pc = "packet"
  /\ packet \in { [PacketNew EXCEPT !.fields = fs] : fs \in SeqsUpTo(MapperFields, MaxFields) }
  /\ bytes = Unused
  /\ neighbor = Unused
  /\ bytes_out = Unused
  /\ packet_out = Unused
  /\ neighbor_out = Unused

MapperToNeighbor ==
  /\ pc = "packet"
  /\ neighbor_out' = to_neighbor(packet)
  /\ pc' = "mapped"
  /\ UNCHANGED <<bytes, packet, neighbor, bytes_out, packet_out>>

NextMapper == MapperToNeighbor

SpecMapper == InitMapper /\ [][NextMapper]_vars

---------------------------------------------------------------------------
(* SpecRoundTrip: a Neighbor is made a packet and the packet a Neighbor.   *)

InitRoundTrip ==
  /\ pc = "neighbor"
  /\ neighbor \in Neighbors
  /\ bytes = Unused
  /\ packet = Unused
  /\ bytes_out = Unused
  /\ packet_out = Unused
  /\ neighbor_out = Unused

RoundTripFromNeighbor ==
  /\ pc = "neighbor"
  /\ packet_out' = from_neighbor(neighbor)
  /\ pc' = "packed"
  /\ UNCHANGED <<bytes, packet, neighbor, bytes_out, neighbor_out>>

RoundTripToNeighbor ==
  /\ pc = "packed"
  /\ neighbor_out' = to_neighbor(packet_out)
  /\ pc' = "unpacked"
  /\ UNCHANGED <<bytes, packet, neighbor, bytes_out, packet_out>>

NextRoundTrip == RoundTripFromNeighbor \/ RoundTripToNeighbor

SpecRoundTrip == InitRoundTrip /\ [][NextRoundTrip]_vars

---------------------------------------------------------------------------
(* SpecWire: a Neighbor is made a packet and the packet is encoded.        *)

InitWire ==
  /\ pc = "neighbor"
  /\ neighbor \in { StoreNeighbor(n) : n \in WireNeighbors }
  /\ bytes = Unused
  /\ packet = Unused
  /\ bytes_out = Unused
  /\ packet_out = Unused
  /\ neighbor_out = Unused

WireFromNeighbor ==
  /\ pc = "neighbor"
  /\ packet_out' = StorePacket(from_neighbor(LoadNeighbor(neighbor)))
  /\ pc' = "packed"
  /\ UNCHANGED <<bytes, packet, neighbor, bytes_out, neighbor_out>>

WireToBytes ==
  /\ pc = "packed"
  /\ bytes_out' = StoreResult(to_bytes(LoadPacket(packet_out)))
  /\ pc' = "encoded"
  /\ UNCHANGED <<bytes, packet, neighbor, packet_out, neighbor_out>>

NextWire == WireFromNeighbor \/ WireToBytes

SpecWire == InitWire /\ [][NextWire]_vars

---------------------------------------------------------------------------
(* The wire format as section 6 of the specification gives it, read        *)
(* strictly: records one after the other, each a big-endian type, a        *)
(* big-endian length and that many bytes.  The reading ends "complete" at  *)
(* the end of the buffer, "leftover" on 1 to 3 bytes that are no record    *)
(* header, and "truncated" at a record whose length exceeds what remains.  *)

RECURSIVE WireRecords(_, _)
WireRecords(buf, fields) ==
  IF Len(buf) = 0 THEN [fields |-> fields, end |-> "complete"]
  ELSE IF Len(buf) < 4 THEN [fields |-> fields, end |-> "leftover"]
  ELSE LET typ == buf[1] * 256 + buf[2]
           len == buf[3] * 256 + buf[4]
       IN  IF len > Len(buf) - 4
           THEN [fields |-> fields, end |-> "truncated"]
           ELSE WireRecords(SubSeq(buf, 5 + len, Len(buf)),
                            Append(fields, [typ |-> typ, value |-> SubSeq(buf, 5, 4 + len)]))

WireBody == WireRecords(SubSeq(bytes, 5, Len(bytes)), << >>)

WellFormed == Len(bytes) >= 4 /\ WireBody.end = "complete"

Decoded == pc \in {"decoded", "encoded", "redecoded"}

---------------------------------------------------------------------------
(* Claims of the codec, under Spec.                                        *)

\* C1: when from_bytes decodes a buffer of at least 4 bytes whose final
\* record declares a length exceeding the bytes that remain after its
\* header, decoding stops there: the packet's fields are exactly the records
\* before it, in wire order, and none is built from the discarded record's
\* bytes.
C1_TruncatedRecordStopsDecoding ==
  (Decoded /\ Len(bytes) >= 4 /\ WireBody.end = "truncated")
    => (packet.ok /\ packet.value.fields = WireBody.fields)

\* C5: from_bytes on a buffer of fewer than 4 bytes is the error and never
\* a packet; on a buffer of 4 bytes or more it is a packet whose header is
\* the big-endian value of bytes 0-1 and whose sequence that of bytes 2-3.
C5_TruncatedInput ==
  Decoded =>
    /\ Len(bytes) < 4 => packet = Err
    /\ Len(bytes) >= 4 =>
         /\ packet.ok
         /\ packet.value.header = bytes[1] * 256 + bytes[2]
         /\ packet.value.sequence = bytes[3] * 256 + bytes[4]

\* C5's case: a buffer of three bytes was refused.
C5_Witness == pc = "decoded" /\ Len(bytes) = 3 /\ ~packet.ok

\* C6: for a well-formed buffer (header, sequence, complete records, nothing
\* left over) from_bytes succeeds, to_bytes of the packet is the buffer byte
\* for byte, and decoding that again gives the same packet.
C6_CodecRoundTrip ==
  WellFormed =>
    /\ Decoded => packet.ok
    /\ pc \in {"encoded", "redecoded"} =>
         ~bytes_out.panicked /\ bytes_out.value = bytes
    /\ pc = "redecoded" => packet_out = packet

\* C6's case: a well-formed buffer of two records, one of an unknown type
\* and one with an empty value, went through decode, encode and decode.
C6_Witness ==
  /\ pc = "redecoded"
  /\ WellFormed
  /\ Len(bytes) > 4
  /\ packet_out.ok
  /\ Len(packet_out.value.fields) = 2
  /\ \E i \in 1..2 : packet_out.value.fields[i].typ = 256
  /\ \E i \in 1..2 : packet_out.value.fields[i].value = << >>

---------------------------------------------------------------------------
(* Claims of the mapper's decode direction, under SpecMapper.              *)

Fields == packet.fields

MalformedFixed(tv) ==
  \/ tv.typ = 17 /\ Len(tv.value) # 4
  \/ tv.typ = 15 /\ Len(tv.value) # 16
  \/ tv.typ = 1 /\ Len(tv.value) # 6

EmptyUnpack(tv) == tv.typ = 14 /\ Len(tv.value) = 0

ShortUptime(tv) == tv.typ = 10 /\ Len(tv.value) < 4

AnyField(P(_)) == \E i \in 1..Len(Fields) : P(Fields[i])

Without(P(_)) == [packet EXCEPT !.fields = SelectSeq(Fields, LAMBDA tv : ~P(tv))]

\* C2: an Ipv4Address, Ipv6Address or MacAddress field whose value is not 4,
\* 16 or 6 bytes long is dropped: to_neighbor still returns a Neighbor, and
\* it is the Neighbor of the field list without the malformed fields.  Stated
\* for field lists with no empty Unpack and no short Uptime field.
C2_FixedWidthMismatchDropped ==
  (pc = "mapped" /\ AnyField(MalformedFixed) /\ ~AnyField(EmptyUnpack) /\ ~AnyField(ShortUptime))
    => (~neighbor_out.panicked /\ neighbor_out = to_neighbor(Without(MalformedFixed)))

\* The last Unpack field whose first byte is 0 or 1, or 0 when there is none.
LastPacking ==
  LET S == { i \in 1..Len(Fields) :
               /\ Fields[i].typ = 14
               /\ Len(Fields[i].value) > 0
               /\ Fields[i].value[1] \in {0, 1} }
  IN  IF S = {} THEN 0 ELSE CHOOSE i \in S : \A j \in S : j <= i

\* C3: an Unpack field sets the packing to "none" for a first byte 0 and to
\* "simple" for 1; with any other first byte, or an empty value, the field
\* is as if absent: to_neighbor returns a Neighbor and the packing is left
\* as it was.  Stated for field lists with no malformed address and no short
\* Uptime field.
C3_PackingModeDecode ==
  (pc = "mapped" /\ AnyField(LAMBDA tv : tv.typ = 14)
      /\ ~AnyField(MalformedFixed) /\ ~AnyField(ShortUptime))
    => /\ ~neighbor_out.panicked
       /\ neighbor_out.value.unpack =
            IF LastPacking = 0 THEN << >>
            ELSE IF Fields[LastPacking].value[1] = 0 THEN << "No" >>
            ELSE << "Simple" >>

\* C4: an Uptime field of fewer than 4 bytes is dropped without aborting the
\* decode: to_neighbor returns the Neighbor of the field list without it.
\* Stated for field lists with no malformed address and no empty Unpack.
C4_ShortUptimeFieldLocal ==
  (pc = "mapped" /\ AnyField(ShortUptime) /\ ~AnyField(MalformedFixed) /\ ~AnyField(EmptyUnpack))
    => (~neighbor_out.panicked /\ neighbor_out = to_neighbor(Without(ShortUptime)))

\* The eleven known type codes and the attribute each one carries.
KnownCodes == {1, 5, 7, 8, 10, 11, 12, 14, 15, 16, 17}

AttrOf(code) ==
  CASE code = 1 -> "mac_address"
    [] code = 5 -> "identity"
    [] code = 7 -> "version"
    [] code = 8 -> "platform"
    [] code = 10 -> "uptime"
    [] code = 11 -> "software_id"
    [] code = 12 -> "board"
    [] code = 14 -> "unpack"
    [] code = 15 -> "ipv6_address"
    [] code = 16 -> "interface_name"
    [] code = 17 -> "ipv4_address"

WellSized(tv) ==
  /\ ~MalformedFixed(tv)
  /\ tv.typ = 14 => Len(tv.value) >= 1
  /\ tv.typ = 10 => Len(tv.value) >= 4

\* What one well-sized field of a known code decodes to: an Option, None
\* for an Unpack field whose first byte is neither 0 nor 1.
DecodedValue(tv) ==
  CASE tv.typ \in {5, 7, 8, 11, 12, 16} -> << from_utf8_lossy(tv.value) >>
    [] tv.typ \in {1, 15, 17} -> << tv.value >>
    [] tv.typ = 14 ->
         IF tv.value[1] = 0 THEN << "No" >>
         ELSE IF tv.value[1] = 1 THEN << "Simple" >>
         ELSE << >>
    [] tv.typ = 10 ->
         << [secs |-> << 0, 0, tv.value[3] + 256 * tv.value[4],
                               tv.value[1] + 256 * tv.value[2] >>,
             nanos |-> 0] >>

\* The last index of a field in S, or 0.
LastOf(S) == IF S = {} THEN 0 ELSE CHOOSE i \in S : \A j \in S : j <= i

Carrying(code) == { i \in 1..Len(Fields) : Fields[i].typ = code }

Decoding(code) == { i \in Carrying(code) : DecodedValue(Fields[i]) # << >> }

\* Removing a field of an unknown code does not change the result.
UnknownCodesIgnored ==
  \A i \in 1..Len(Fields) :
    Fields[i].typ \notin KnownCodes =>
      neighbor_out = to_neighbor([packet EXCEPT !.fields =
                                    SubSeq(Fields, 1, i - 1) \o SubSeq(Fields, i + 1, Len(Fields))])

AllWellSized == \A i \in 1..Len(Fields) : WellSized(Fields[i])

\* C9 as stated: for well-sized fields each attribute is the decoded value
\* of the last field carrying its type code (absent if there is none), and
\* fields of unknown codes never change the result.
C9_LastFieldCarryingCodeWins ==
  (pc = "mapped" /\ AllWellSized) =>
    /\ ~neighbor_out.panicked
    /\ \A code \in KnownCodes :
         neighbor_out.value[AttrOf(code)] =
           IF Carrying(code) = {} THEN << >>
           ELSE DecodedValue(Fields[LastOf(Carrying(code))])
    /\ UnknownCodesIgnored

\* C9 as amended: for well-sized fields each attribute is the decoded value
\* of the last field carrying its type code that decodes to a value (an
\* Unpack field whose first byte is neither 0 nor 1 is passed over), absent
\* if there is none, and fields of unknown codes never change the result.
C9_LastDecodingFieldWins ==
  (pc = "mapped" /\ AllWellSized) =>
    /\ ~neighbor_out.panicked
    /\ \A code \in KnownCodes :
         neighbor_out.value[AttrOf(code)] =
           IF Decoding(code) = {} THEN << >>
           ELSE DecodedValue(Fields[LastOf(Decoding(code))])
    /\ UnknownCodesIgnored

\* C9's case: two fields of one code with different values around a field
\* of an unknown code were mapped, and the second one's value is the result.
C9_Witness ==
  /\ pc = "mapped"
  /\ AllWellSized
  /\ Len(Fields) = 3
  /\ Fields[1].typ = 17 /\ Fields[3].typ = 17
  /\ Fields[1].value # Fields[3].value
  /\ Fields[2].typ \notin KnownCodes
  /\ ~neighbor_out.panicked
  /\ neighbor_out.value.ipv4_address = << Fields[3].value >>

---------------------------------------------------------------------------
(* Claims of the mapper's encode direction, under SpecRoundTrip.           *)

\* The canonical order of section 4.2, as type codes: board, identity,
\* interface name, IPv4, IPv6, MAC, platform, software ID, packing mode,
\* uptime, version.
CanonicalOrder == << 12, 5, 16, 17, 15, 1, 8, 11, 14, 10, 7 >>

\* The uptime's seconds are within the 32-bit unsigned range.
FitsU32(d) == d.secs[1] = 0 /\ d.secs[2] = 0

\* The attribute of a code is present and has a wire encoding.
Emitted(code) ==
  /\ neighbor[AttrOf(code)] # << >>
  /\ code = 10 => FitsU32(neighbor.uptime[1])

\* The value the field of a code carries for the neighbor's attribute.
EmittedValue(code) ==
  LET v == neighbor[AttrOf(code)][1]
  IN  CASE code = 14 -> IF v = "No" THEN << 0 >> ELSE << 1 >>
        [] code = 10 -> << v.secs[4] % 256, v.secs[4] \div 256,
                           v.secs[3] % 256, v.secs[3] \div 256 >>
        [] OTHER -> v

\* C10: from_neighbor returns a packet with exactly one field per present
\* attribute and none for an absent one, in the canonical order; the uptime
\* field is the seconds as 4 little-endian bytes and is left out, the other
\* fields still emitted, when the seconds exceed the 32-bit unsigned range.
C10_CanonicalEncode ==
  pc \in {"packed", "unpacked"} =>
    LET fs == packet_out.fields
        codes == SelectSeq(CanonicalOrder, Emitted)
    IN  /\ Len(fs) = Len(codes)
        /\ \A i \in 1..Len(codes) :
             fs[i].typ = codes[i] /\ fs[i].value = EmittedValue(codes[i])

\* C10's case: a Neighbor with all eleven attributes became eleven fields.
C10_Witness ==
  /\ pc = "packed"
  /\ \A code \in KnownCodes : neighbor[AttrOf(code)] # << >>
  /\ FitsU32(neighbor.uptime[1])
  /\ Len(packet_out.fields) = 11

\* C7's Neighbor records: packing none or simple, and an uptime whose
\* seconds fit in 32 bits.
Representable == neighbor.uptime # << >> => FitsU32(neighbor.uptime[1])

\* The uptime is a whole number of seconds.
WholeSeconds == neighbor.uptime # << >> => neighbor.uptime[1].nanos = 0

\* C7 as stated: for a Neighbor with only representable attributes set,
\* from_neighbor followed by to_neighbor gives a Neighbor in which every set
\* attribute has its original value and every unset attribute is absent.
C7_NeighborRoundTrip ==
  (pc = "unpacked" /\ Representable) =>
    (~neighbor_out.panicked /\ neighbor_out.value = neighbor)

\* C7 as amended: the same, for a Neighbor whose uptime, if set, is a whole
\* number of seconds that fits in 32 bits.
C7_NeighborRoundTripWholeSeconds ==
  (pc = "unpacked" /\ Representable /\ WholeSeconds) =>
    (~neighbor_out.panicked /\ neighbor_out.value = neighbor)

\* C7's case: a Neighbor with all eleven attributes, its uptime 2677 s, went
\* through from_neighbor and to_neighbor.
C7_Witness ==
  /\ pc = "unpacked"
  /\ \A code \in KnownCodes : neighbor[AttrOf(code)] # << >>
  /\ neighbor.uptime[1] = [secs |-> << 0, 0, 0, 2677 >>, nanos |-> 0]
  /\ neighbor.board[1] = << 195, 169 >>
  /\ ~neighbor_out.panicked
  /\ neighbor_out.value.uptime = neighbor.uptime

---------------------------------------------------------------------------
(* Claims of the encoder, under SpecWire.                                  *)

Shorter(a, b) == IF a < b THEN a ELSE b

\* C8: to_bytes emits for each field a 16-bit length equal to
\* min(len(value), 65535) followed by exactly that many leading bytes of the
\* value: read strictly, its output is the header, the sequence and the
\* packet's fields with each value cut to 65535 bytes, with nothing left
\* over; and to_bytes never fails.
C8_LengthClamping ==
  pc = "encoded" =>
    /\ ~bytes_out.panicked
    /\ LET fs == LoadPacket(packet_out).fields
           out == Load(bytes_out.value)
           wire == WireRecords(SubSeq(out, 5, Len(out)), << >>)
       IN  /\ Len(out) >= 4
           /\ wire.end = "complete"
           /\ Len(wire.fields) = Len(fs)
           /\ \A i \in 1..Len(fs) :
                /\ wire.fields[i].typ = fs[i].typ
                /\ Len(wire.fields[i].value) = Shorter(Len(fs[i].value), 65535)
                /\ wire.fields[i].value =
                     SubSeq(fs[i].value, 1, Shorter(Len(fs[i].value), 65535))

\* C8's case: a packet with a value longer than 65535 bytes, followed by
\* another field, was encoded.
C8_Witness ==
  /\ pc = "encoded"
  /\ Len(packet_out.fields) >= 2
  /\ Len(Load(packet_out.fields[1].value)) > 65535
  /\ ~bytes_out.panicked

===========================================================================
